---------------------------- MODULE Spec2Model ----------------------------
(***************************************************************************)
(* Model of the provincial dashboard (class MapaProvincias, MapaWeb/app.js *)
(* of Argentina-GEE): the asynchronous initialisation (init, cargarDatos), *)
(* the renderers (agregarMarcadoresProvincias, crearGraficoEnPopup,        *)
(* crearGraficoMaximos, crearLeyenda) and the popup/timer events.          *)
(*                                                                         *)
(* Spec is the dashboard from page load on, served a few sample documents. *)
(* SpecRender starts where both fetches have resolved and runs the         *)
(* renderers on every document of three bounded families.                  *)
(*                                                                         *)
(* Encoding of JavaScript values:                                          *)
(*   - a value that may be null/undefined is an option: <<>> (absent) or   *)
(*     <<x>> (present);                                                    *)
(*   - an object used as a mapping is the sequence Object.entries returns  *)
(*     for it, each entry a record [k |-> key, v |-> value], keys distinct;*)
(*   - numbers (area_km2, porcentaje) are naturals;                        *)
(*   - a display name compared with localeCompare is a sequence of letter  *)
(*     ranks; other strings are TLA+ strings.                              *)
(***************************************************************************)
EXTENDS Integers, Sequences, FiniteSets

VARIABLES
    pc,               \* position of the async init()/cargarDatos() chain
    map,              \* this.map
    datosProvincias,  \* this.datosProvincias
    clasificaciones,  \* this.clasificaciones
    provinciasLayer,  \* this.provinciasLayer: the markers added to the map
    chart,            \* this.chart
    maximosData,      \* the parsed maxima document (const maximosData)
    maximosItems,     \* children of #maximosItems
    legendItems,      \* children of #legendItems
    errores,          \* number of console.error calls
    log,              \* history: fetches issued, documents parsed, renderers called
    fallo,            \* history: the await that rejected, "" when none
    conteo,           \* history: how often init ran and each fetch was issued
    respuesta,        \* body of the response being read by response.json()
    charts,           \* history: the province of each Chart created, in order
    live,             \* ids of the Chart instances created and not destroyed
    canvases,         \* provinces (indices) whose popup <canvas> is in the DOM
    timers            \* pending setTimeout callbacks, in firing order

vars == <<pc, map, datosProvincias, clasificaciones, provinciasLayer, chart,
          maximosData, maximosItems, legendItems, errores, log, fallo,
          conteo, respuesta, charts, live, canvases, timers>>

---------------------------------------------------------------------------
(* Bounds of the model *)

MaxValor == 2
MaxNombreLen == 2
MaxProvincias == 2
MaxPopups == 3

---------------------------------------------------------------------------
(* JavaScript values *)

Undefined == <<>>
Def(x) == <<x>>
IsDef(o) == o # <<>>
Val(o) == o[1]

Min(S) == CHOOSE x \in S : \A y \in S : x <= y

\* Array.prototype.sort(compareFn) on arr, where cmp[i][j] is the value of
\* compareFn(arr[i], arr[j]).  The sort is stable: the element at index i ends
\* after every element that compares before it and after the equal elements
\* that preceded it.
ArraySort(cmp, arr) ==
    LET n == Len(arr)
        pos(i) == 1 + Cardinality({j \in 1..n :
                        \/ cmp[j][i] < 0
                        \/ cmp[j][i] = 0 /\ j < i})
    IN  [p \in 1..n |-> arr[CHOOSE i \in 1..n : pos(i) = p]]

\* String.prototype.localeCompare on names made of letters: dictionary order.
LocaleCompare(a, b) ==
    LET n == IF Len(a) < Len(b) THEN Len(a) ELSE Len(b)
        d == {i \in 1..n : a[i] # b[i]}
    IN  IF d # {}
        THEN IF a[Min(d)] < b[Min(d)] THEN -1 ELSE 1
        ELSE IF Len(a) < Len(b) THEN -1
        ELSE IF Len(a) > Len(b) THEN 1 ELSE 0

\* Number.prototype.toFixed(1) of a whole number n: the digits "n.0", kept as
\* the pair <<integer part, first decimal>>.
ToFixed1(n) == <<n, 0>>

\* `${x}` of a value that may be null: the text "null" for null.
TemplateText(o) == IF IsDef(o) THEN Val(o) ELSE "null"

Whitespace == {" "}

\* provincia.replace(/\s+/g, '-') on a name given as a sequence of characters:
\* every maximal run of whitespace becomes one "-".
RECURSIVE ReplaceSpaces(_, _)
ReplaceSpaces(name, i) ==
    IF i > Len(name) THEN <<>>
    ELSE IF name[i] \notin Whitespace THEN <<name[i]>> \o ReplaceSpaces(name, i + 1)
    ELSE IF i > 1 /\ name[i - 1] \in Whitespace THEN ReplaceSpaces(name, i + 1)
    ELSE <<"-">> \o ReplaceSpaces(name, i + 1)

CanvasId(provincia) == <<"chart-">> \o ReplaceSpaces(provincia, 1)

---------------------------------------------------------------------------
(* agregarMarcadoresProvincias: the two per-feature callbacks *)

FallbackColor == "#3388ff"

\* The scan of pointToLayer: the colour of the first entry whose porcentaje
\* exceeds every earlier one, starting from maxPorcentaje = 0.
RECURSIVE ScanColor(_, _, _)
ScanColor(entries, i, acc) ==
    IF i > Len(entries) THEN acc
    ELSE ScanColor(entries, i + 1,
            IF entries[i].v.porcentaje > acc.maxPorcentaje
            THEN [claseDominante |-> Def(entries[i].v.color),
                  maxPorcentaje |-> entries[i].v.porcentaje]
            ELSE acc)

\* The scan of onEachFeature: the same loop, keeping the entry's key.
RECURSIVE ScanNombre(_, _, _)
ScanNombre(entries, i, acc) ==
    IF i > Len(entries) THEN acc
    ELSE ScanNombre(entries, i + 1,
            IF entries[i].v.porcentaje > acc.maxPorcentaje
            THEN [claseDominante |-> Def(entries[i].k),
                  maxPorcentaje |-> entries[i].v.porcentaje]
            ELSE acc)

ScanInit == [claseDominante |-> Undefined, maxPorcentaje |-> 0]

\* Object.entries(undefined) throws a TypeError.
ObjectEntriesThrows(o) == ~IsDef(o)

\* pointToLayer: the circle marker's fill colour (claseDominante || '#3388ff').
PointToLayer(feature) ==
    LET r == ScanColor(Val(feature.clasificaciones), 1, ScanInit)
    IN  IF IsDef(r.claseDominante) /\ Val(r.claseDominante) # ""
        THEN Val(r.claseDominante)
        ELSE FallbackColor

\* onEachFeature: the popup bound to the marker.
OnEachFeature(feature) ==
    LET r == ScanNombre(Val(feature.clasificaciones), 1, ScanInit)
    IN  [provincia |-> feature.provincia,
         claseDominante |-> TemplateText(r.claseDominante),
         maxPorcentaje |-> ToFixed1(r.maxPorcentaje),
         canvasId |-> CanvasId(feature.provincia)]

\* L.geoJSON(datos, {pointToLayer, onEachFeature}): one marker per feature,
\* pointToLayer then onEachFeature for each feature in turn.
GeoJSONLayer(datos) ==
    [i \in 1..Len(datos) |->
        [fillColor |-> PointToLayer(datos[i]), popup |-> OnEachFeature(datos[i])]]

\* An exception of a callback leaves L.geoJSON before any layer is returned.
GeoJSONThrows(datos) ==
    \E i \in 1..Len(datos) : ObjectEntriesThrows(datos[i].clasificaciones)

---------------------------------------------------------------------------
(* crearGraficoEnPopup: the chart's data *)

\* DatosDetalle with the comparator reversed: (a, b) => a.area - b.area.
DatosDetalleAscendente(entries) ==
    LET proj == [i \in 1..Len(entries) |->
                    [nombre |-> entries[i].k,
                     area |-> entries[i].v.area_km2,
                     porcentaje |-> entries[i].v.porcentaje,
                     color |-> entries[i].v.color]]
        cmp == [i \in 1..Len(proj) |-> [j \in 1..Len(proj) |->
                    proj[i].area - proj[j].area]]
    IN  ArraySort(cmp, proj)

\* Object.entries(clasificaciones).map(...).sort((a, b) => b.area - a.area)
DatosDetalle(entries) ==
    LET proj == [i \in 1..Len(entries) |->
                    [nombre |-> entries[i].k,
                     area |-> entries[i].v.area_km2,
                     porcentaje |-> entries[i].v.porcentaje,
                     color |-> entries[i].v.color]]
        cmp == [i \in 1..Len(proj) |-> [j \in 1..Len(proj) |->
                    proj[j].area - proj[i].area]]
    IN  ArraySort(cmp, proj)

\* ChartConfig with the labels taken from Object.keys(clasificaciones), not
\* from the sorted datos.
ChartConfigEtiquetasSinOrdenar(provinciaNombre, entries) ==
    LET datos == DatosDetalle(entries)
    IN  [titulo |-> provinciaNombre,
         labels |-> [i \in 1..Len(entries) |-> entries[i].k],
         data |-> [i \in 1..Len(datos) |-> datos[i].area],
         backgroundColor |-> [i \in 1..Len(datos) |-> datos[i].color],
         datos |-> datos]

\* The configuration handed to new Chart(canvas, {...}).
ChartConfig(provinciaNombre, entries) ==
    LET datos == DatosDetalle(entries)
    IN  [titulo |-> provinciaNombre,
         labels |-> [i \in 1..Len(datos) |-> datos[i].nombre],
         data |-> [i \in 1..Len(datos) |-> datos[i].area],
         backgroundColor |-> [i \in 1..Len(datos) |-> datos[i].color],
         datos |-> datos]

\* tooltip.callbacks.afterLabel for the bar at dataIndex (1-based here).
AfterLabel(config, dataIndex) == ToFixed1(config.datos[dataIndex].porcentaje)

---------------------------------------------------------------------------
(* crearGraficoMaximos and crearLeyenda: the rows appended *)

\* FilasMaximos without the sort: the rows in the document's order.
FilasMaximosSinOrdenar(entries) ==
    [i \in 1..Len(entries) |->
        [clase |-> entries[i].k,
         provincia |-> entries[i].v.provincia,
         porcentaje |-> entries[i].v.porcentaje,
         color |-> entries[i].v.color]]

\* Object.entries(maximosData).sort(([, a], [, b]) => b.porcentaje - a.porcentaje)
\* and one .maximo-item per entry.
FilasMaximos(entries) ==
    LET cmp == [i \in 1..Len(entries) |-> [j \in 1..Len(entries) |->
                    entries[j].v.porcentaje - entries[i].v.porcentaje]]
        sortedMaximos == ArraySort(cmp, entries)
    IN  [i \in 1..Len(sortedMaximos) |->
            [clase |-> sortedMaximos[i].k,
             provincia |-> sortedMaximos[i].v.provincia,
             porcentaje |-> sortedMaximos[i].v.porcentaje,
             color |-> sortedMaximos[i].v.color]]

\* FilasLeyenda without the sort: the rows in the catalog's key order.
FilasLeyendaSinOrdenar(entries) ==
    [i \in 1..Len(entries) |->
        [color |-> entries[i].v.color, nombre |-> entries[i].v.nombre]]

\* Object.entries(this.clasificaciones)
\*     .sort(([, a], [, b]) => a.nombre.localeCompare(b.nombre))
\* and one .legend-item per entry.
FilasLeyenda(entries) ==
    LET cmp == [i \in 1..Len(entries) |-> [j \in 1..Len(entries) |->
                    LocaleCompare(entries[i].v.nombre, entries[j].v.nombre)]]
        sortedClases == ArraySort(cmp, entries)
    IN  [i \in 1..Len(sortedClases) |->
            [color |-> sortedClases[i].v.color,
             nombre |-> sortedClases[i].v.nombre]]

---------------------------------------------------------------------------
(* The documents served to the dashboard *)

Clases == {"Agua", "Bosque", "Tierras de Cultivo"}

\* dwVis.palette: the colour of each class.
ColorDe(clase) ==
    CASE clase = "Agua" -> "#419bdf"
      [] clase = "Bosque" -> "#397d49"
      [] OTHER -> "#e49635"

Valores == 0..MaxValor

\* The orders in which Object.entries can list some of the keys of K.
KeySeqs(K) ==
    {ks \in UNION {[1..n -> K] : n \in 0..Cardinality(K)} :
        \A i, j \in 1..Len(ks) : i # j => ks[i] # ks[j]}

\* Display names: the words of at most MaxNombreLen letters over two letters,
\* each letter given by its rank in the alphabet.
Nombres == UNION {[1..n -> 1..2] : n \in 0..MaxNombreLen}

\* Province names, as sequences of words and whitespace characters.
BuenosAires == <<"Buenos", " ", "Aires">>
SantaFe == <<"Santa", " ", "Fe">>
SantaFeGuion == <<"Santa", "-", "Fe">>
Chaco == <<"Chaco">>

\* A class mapping of a province feature (properties.clasificaciones): the
\* classes ks in that order, with the areas and percentages vs.
ValoresProvincia == [area_km2 : Valores, porcentaje : Valores]

MappingProvincia(ks, vs) ==
    [i \in 1..Len(ks) |->
        [k |-> ks[i],
         v |-> [area_km2 |-> vs[i].area_km2,
                porcentaje |-> vs[i].porcentaje,
                color |-> ColorDe(ks[i])]]]

\* A maxima document (maximos_por_clasificacion.json).
ValoresMaximos == [provincia : {BuenosAires, Chaco}, porcentaje : Valores]

MappingMaximos(ks, vs) ==
    [i \in 1..Len(ks) |->
        [k |-> ks[i],
         v |-> [provincia |-> vs[i].provincia,
                porcentaje |-> vs[i].porcentaje,
                color |-> ColorDe(ks[i])]]]

\* A classification catalog (data.clasificaciones), keyed by class id.
ClaseIds == {"0", "1", "2"}

ColorDeId(id) ==
    CASE id = "0" -> "#419bdf"
      [] id = "1" -> "#397d49"
      [] OTHER -> "#e49635"

MappingCatalogo(ks, vs) ==
    [i \in 1..Len(ks) |->
        [k |-> ks[i], v |-> [nombre |-> vs[i], color |-> ColorDeId(ks[i])]]]

Entrada(clase, area, porcentaje) ==
    [k |-> clase,
     v |-> [area_km2 |-> area, porcentaje |-> porcentaje, color |-> ColorDe(clase)]]

\* The features of the dashboard runs: the scenario {Bosque: 40%, Agua: 60%},
\* a province with an empty mapping, one whose classes all have 0%, and one
\* without the clasificaciones property.
AppFeatures ==
    {[provincia |-> BuenosAires,
      clasificaciones |-> Def(<<Entrada("Bosque", 400, 40), Entrada("Agua", 600, 60)>>)],
     [provincia |-> SantaFe, clasificaciones |-> Def(<<>>)],
     [provincia |-> SantaFeGuion,
      clasificaciones |-> Def(<<Entrada("Agua", 0, 0), Entrada("Bosque", 0, 0)>>)],
     [provincia |-> Chaco, clasificaciones |-> Undefined]}

CatalogoDW ==
    <<[k |-> "0", v |-> [nombre |-> <<1>>, color |-> ColorDeId("0")]],
      [k |-> "1", v |-> [nombre |-> <<2>>, color |-> ColorDeId("1")]]>>

MaximosDW ==
    <<[k |-> "Agua",
       v |-> [provincia |-> Chaco, porcentaje |-> 60, color |-> ColorDe("Agua")]],
      [k |-> "Bosque",
       v |-> [provincia |-> BuenosAires, porcentaje |-> 40, color |-> ColorDe("Bosque")]]>>

\* The primary documents of the dashboard runs; provincias or clasificaciones
\* may be missing from the document.
AppPrimaryDocs ==
    {[provincias |-> ps, clasificaciones |-> c] :
        ps \in {Undefined} \cup
               {Def(fs) : fs \in UNION {[1..n -> AppFeatures] : n \in 0..MaxProvincias}},
        c \in {Undefined, Def(CatalogoDW)}}

AppMaximosDocs == {<<>>, MaximosDW}

---------------------------------------------------------------------------
(* State machine *)

\* History of events, each kept at its first occurrence.
LogEvent(lg, e) == IF e \in {lg[i] : i \in 1..Len(lg)} THEN lg ELSE Append(lg, e)

Init ==
    /\ pc = "uninit"
    /\ map = Undefined
    /\ datosProvincias = Undefined
    /\ clasificaciones = Undefined
    /\ provinciasLayer = Undefined
    /\ chart = Undefined
    /\ maximosData = Undefined
    /\ maximosItems = <<>>
    /\ legendItems = <<>>
    /\ errores = 0
    /\ log = <<>>
    /\ fallo = ""
    /\ conteo = [init |-> 0, fetch1 |-> 0, fetch2 |-> 0]
    /\ respuesta = Undefined
    /\ charts = <<>>
    /\ live = {}
    /\ canvases = <<>>
    /\ timers = <<>>

\* CargarDatosStart issuing both fetches at once (Promise.all).
CargarDatosStartParalelo ==
    /\ pc' = "fetch1"
    /\ log' = LogEvent(LogEvent(log, "fetch1"), "fetch2")
    /\ conteo' = [conteo EXCEPT !.init = @ + 1, !.fetch1 = @ + 1]

\* cargarDatos up to its first await: the primary fetch is issued.
CargarDatosStart ==
    /\ pc' = "fetch1"
    /\ log' = LogEvent(log, "fetch1")
    /\ conteo' = [conteo EXCEPT !.init = @ + 1, !.fetch1 = @ + 1]

\* DOMContentLoaded: new MapaProvincias(); the constructor nulls the fields and
\* calls init(), which runs to the first await of cargarDatos.
DOMContentLoaded ==
    /\ pc = "uninit"
    /\ CargarDatosStart
    /\ UNCHANGED <<map, datosProvincias, clasificaciones, provinciasLayer, chart,
                   maximosData, maximosItems, legendItems, errores, fallo,
                   respuesta, charts, live, canvases, timers>>

\* init after `await this.cargarDatos()` returned: lines 15-20, with the
\* events logged so far lg and the errors logged so far errs.  An exception
\* of inicializarMapa is caught and logged by init (line 22).
InitTrasCargar(lg, errs) ==
    /\ pc' = "done"
    /\ IF IsDef(datosProvincias) /\ IsDef(clasificaciones)
       THEN /\ map' = Def("map")
            /\ IF GeoJSONThrows(Val(datosProvincias))
               THEN /\ log' = LogEvent(lg, "inicializarMapa")
                    /\ errores' = errs + 1
                    /\ UNCHANGED <<provinciasLayer, legendItems>>
               ELSE /\ log' = LogEvent(LogEvent(lg, "inicializarMapa"), "crearLeyenda")
                    /\ errores' = errs
                    /\ provinciasLayer' = Def(GeoJSONLayer(Val(datosProvincias)))
                    /\ legendItems' = FilasLeyenda(Val(clasificaciones))
       ELSE /\ errores' = errs + 1
            /\ log' = lg
            /\ UNCHANGED <<map, provinciasLayer, legendItems>>

\* CargarDatosCatch without the rethrow: cargarDatos logs and returns, and
\* init goes on at line 15.
CargarDatosCatchSinRelanzar(etapa) ==
    /\ fallo' = etapa
    /\ InitTrasCargar(log, errores + 1)
    /\ UNCHANGED conteo

\* CargarDatosCatch retrying: the primary fetch is issued again (at most
\* three times).
CargarDatosCatchReintenta(etapa) ==
    /\ fallo' = etapa
    /\ errores' = errores + 1
    /\ IF conteo.fetch1 < 3
       THEN pc' = "fetch1" /\ conteo' = [conteo EXCEPT !.fetch1 = @ + 1]
       ELSE pc' = "done" /\ conteo' = conteo
    /\ UNCHANGED <<map, provinciasLayer, legendItems, log>>

\* The catch of cargarDatos (log, rethrow) and then the catch of init (log):
\* the await at `etapa` rejected.
CargarDatosCatch(etapa) ==
    /\ fallo' = etapa
    /\ errores' = errores + 2
    /\ pc' = "done"
    /\ UNCHANGED <<map, provinciasLayer, legendItems, log, conteo>>

\* fetch(primary) resolves with a response whose body is `body`: a document,
\* or Undefined for a body that is not JSON.
Fetch1Resolve(body) ==
    /\ pc = "fetch1"
    /\ pc' = "json1"
    /\ respuesta' = body
    /\ UNCHANGED <<map, datosProvincias, clasificaciones, provinciasLayer, chart,
                   maximosData, maximosItems, legendItems, errores, log, fallo,
                   conteo, charts, live, canvases, timers>>

\* fetch(primary) rejects (network error).
Fetch1Reject ==
    /\ pc = "fetch1"
    /\ CargarDatosCatch("fetch1")
    /\ UNCHANGED <<datosProvincias, clasificaciones, chart, maximosData,
                   maximosItems, respuesta, charts, live, canvases, timers>>

\* response.json() resolves: lines 30-33, the maxima fetch is issued.
Json1Resolve ==
    /\ pc = "json1"
    /\ IsDef(respuesta)
    /\ datosProvincias' = Val(respuesta).provincias
    /\ clasificaciones' = Val(respuesta).clasificaciones
    /\ pc' = "fetch2"
    /\ log' = LogEvent(LogEvent(log, "parsed1"), "fetch2")
    /\ conteo' = [conteo EXCEPT !.fetch2 = @ + 1]
    /\ respuesta' = Undefined
    /\ UNCHANGED <<map, provinciasLayer, chart, maximosData, maximosItems,
                   legendItems, errores, fallo, charts, live, canvases, timers>>

\* response.json() rejects: the body is not JSON.
Json1Reject ==
    /\ pc = "json1"
    /\ ~IsDef(respuesta)
    /\ CargarDatosCatch("json1")
    /\ UNCHANGED <<datosProvincias, clasificaciones, chart, maximosData,
                   maximosItems, respuesta, charts, live, canvases, timers>>

Fetch2Resolve(body) ==
    /\ pc = "fetch2"
    /\ pc' = "json2"
    /\ respuesta' = body
    /\ UNCHANGED <<map, datosProvincias, clasificaciones, provinciasLayer, chart,
                   maximosData, maximosItems, legendItems, errores, log, fallo,
                   conteo, charts, live, canvases, timers>>

Fetch2Reject ==
    /\ pc = "fetch2"
    /\ CargarDatosCatch("fetch2")
    /\ UNCHANGED <<datosProvincias, clasificaciones, chart, maximosData,
                   maximosItems, respuesta, charts, live, canvases, timers>>

\* maximosResponse.json() resolves: crearGraficoMaximos(maximosData), then
\* cargarDatos returns and init goes on.
Json2Resolve ==
    /\ pc = "json2"
    /\ IsDef(respuesta)
    /\ maximosData' = respuesta
    /\ maximosItems' = FilasMaximos(Val(respuesta))
    /\ InitTrasCargar(LogEvent(LogEvent(log, "parsed2"), "crearGraficoMaximos"), errores)
    /\ respuesta' = Undefined
    /\ UNCHANGED <<datosProvincias, clasificaciones, chart, fallo, conteo,
                   charts, live, canvases, timers>>

Json2Reject ==
    /\ pc = "json2"
    /\ ~IsDef(respuesta)
    /\ CargarDatosCatch("json2")
    /\ UNCHANGED <<datosProvincias, clasificaciones, chart, maximosData,
                   maximosItems, respuesta, charts, live, canvases, timers>>

---------------------------------------------------------------------------
(* Popups and the detail chart *)

\* ChartDestroy left out: the previous instance stays alive.
ChartDestroyOmitido(ch, lv) == lv

\* if (this.chart) this.chart.destroy(): the instances left alive.
ChartDestroy(ch, lv) == IF IsDef(ch) THEN lv \ {Val(ch).id} ELSE lv

\* document.getElementById(id): the first popup canvas of the document with
\* that id, as the set of its positions (empty: null).
GetElementById(id) ==
    LET found == {p \in 1..Len(canvases) :
                    Val(provinciasLayer)[canvases[p]].popup.canvasId = id}
    IN  IF found = {} THEN {} ELSE {Min(found)}

\* crearGraficoEnPopup(props.provincia, clasificaciones) for feature i.
CrearGraficoEnPopup(i) ==
    LET feature == Val(datosProvincias)[i]
        canvas == GetElementById(CanvasId(feature.provincia))
        id == Len(charts) + 1
    IN  /\ log' = LogEvent(log, "crearGraficoEnPopup")
        /\ IF canvas = {}
           THEN UNCHANGED <<chart, charts, live>>
           ELSE /\ live' = ChartDestroy(chart, live) \cup {id}
                /\ chart' = Def([id |-> id,
                                 canvas |-> canvases[Min(canvas)],
                                 config |-> ChartConfig(feature.provincia,
                                                Val(feature.clasificaciones))])
                /\ charts' = Append(charts, i)

\* The user opens the popup of marker i: Leaflet puts the popup content (with
\* its canvas) in the document and fires popupopen, whose handler defers
\* crearGraficoEnPopup by 100 ms.
PopupOpen(i) ==
    /\ pc = "done"
    /\ IsDef(provinciasLayer)
    /\ i \in 1..Len(Val(provinciasLayer))
    /\ \A p \in 1..Len(canvases) : canvases[p] # i
    /\ Len(charts) + Len(timers) < MaxPopups
    /\ canvases' = Append(canvases, i)
    /\ timers' = Append(timers, i)
    /\ UNCHANGED <<pc, map, datosProvincias, clasificaciones, provinciasLayer,
                   chart, maximosData, maximosItems, legendItems, errores, log,
                   fallo, conteo, respuesta, charts, live>>

\* The popup of marker i leaves the document (closed by the user, or by
\* another popup opening).
PopupClose(i) ==
    /\ \E p \in 1..Len(canvases) : canvases[p] = i
    /\ canvases' = SelectSeq(canvases, LAMBDA j : j # i)
    /\ UNCHANGED <<pc, map, datosProvincias, clasificaciones, provinciasLayer,
                   chart, maximosData, maximosItems, legendItems, errores, log,
                   fallo, conteo, respuesta, charts, live, timers>>

\* The oldest pending timer fires (equal delays fire in the order set).
TimerFire ==
    /\ timers # <<>>
    /\ CrearGraficoEnPopup(Head(timers))
    /\ timers' = Tail(timers)
    /\ UNCHANGED <<pc, map, datosProvincias, clasificaciones, provinciasLayer,
                   maximosData, maximosItems, legendItems, errores, fallo,
                   conteo, respuesta, canvases>>

Next ==
    \/ DOMContentLoaded
    \/ \E body \in {Undefined} \cup {Def(d) : d \in AppPrimaryDocs} : Fetch1Resolve(body)
    \/ Fetch1Reject
    \/ Json1Resolve
    \/ Json1Reject
    \/ \E body \in {Undefined} \cup {Def(d) : d \in AppMaximosDocs} : Fetch2Resolve(body)
    \/ Fetch2Reject
    \/ Json2Resolve
    \/ Json2Reject
    \/ \E i \in 1..MaxProvincias : PopupOpen(i)
    \/ \E i \in 1..MaxProvincias : PopupClose(i)
    \/ TimerFire

Spec == Init /\ [][Next]_vars

---------------------------------------------------------------------------
(* The renderers on bounded inputs: the dashboard at the point where both *)
(* fetches have resolved, for every document of three families, each      *)
(* varying one of the three structures.                                   *)

FeatureEscenario ==
    [provincia |-> BuenosAires,
     clasificaciones |-> Def(<<Entrada("Bosque", 400, 40), Entrada("Agua", 600, 60)>>)]

\* The dashboard while maximosResponse.json() is pending, the primary
\* document having brought the features provs and the catalog cat, and the
\* maxima response holding the document mdoc.
InitRenderCon(provs, cat, mdoc) ==
    /\ pc = "json2"
    /\ map = Undefined
    /\ datosProvincias = Def(provs)
    /\ clasificaciones = Def(cat)
    /\ provinciasLayer = Undefined
    /\ chart = Undefined
    /\ maximosData = Undefined
    /\ maximosItems = <<>>
    /\ legendItems = <<>>
    /\ errores = 0
    /\ log = <<"fetch1", "parsed1", "fetch2">>
    /\ fallo = ""
    /\ conteo = [init |-> 1, fetch1 |-> 1, fetch2 |-> 1]
    /\ respuesta = Def(mdoc)
    /\ charts = <<>>
    /\ live = {}
    /\ canvases = <<>>
    /\ timers = <<>>

InitRender ==
    \/ \E ks \in KeySeqs(Clases) : \E vs \in [1..Len(ks) -> ValoresProvincia] :
          InitRenderCon(<<[provincia |-> BuenosAires,
                           clasificaciones |-> Def(MappingProvincia(ks, vs))]>>,
                        CatalogoDW, MaximosDW)
    \/ \E ks \in KeySeqs(ClaseIds) : \E vs \in [1..Len(ks) -> Nombres] :
          InitRenderCon(<<FeatureEscenario>>, MappingCatalogo(ks, vs), MaximosDW)
    \/ \E ks \in KeySeqs(Clases) : \E vs \in [1..Len(ks) -> ValoresMaximos] :
          InitRenderCon(<<FeatureEscenario>>, CatalogoDW, MappingMaximos(ks, vs))

NextRender ==
    \/ Json2Resolve
    \/ PopupOpen(1)
    \/ TimerFire

SpecRender == InitRender /\ [][NextRender]_vars

---------------------------------------------------------------------------
(* Properties *)

InLog(e) == \E i \in 1..Len(log) : log[i] = e
Pos(e) == IF InLog(e) THEN Min({i \in 1..Len(log) : log[i] = e}) ELSE 0

\* The class mapping of feature i of the loaded dataset.
MappingDe(i) == Val(Val(datosProvincias)[i].clasificaciones)

\* The index of the first entry holding the maximum porcentaje.
PrimerMaximo(entries) ==
    Min({j \in 1..Len(entries) :
            \A k \in 1..Len(entries) : entries[k].v.porcentaje <= entries[j].v.porcentaje})

\* C1: for every marker of a feature with a non-empty class mapping, the fill
\* colour is the colour of the first entry with maximum porcentaje and the
\* popup's dominant class is that entry's name.
C1_DominanteEsPrimerMaximo ==
    IsDef(provinciasLayer) =>
        \A i \in 1..Len(Val(provinciasLayer)) :
            MappingDe(i) # <<>> =>
                LET e == MappingDe(i)[PrimerMaximo(MappingDe(i))]
                    m == Val(provinciasLayer)[i]
                IN  m.fillColor = e.v.color /\ m.popup.claseDominante = e.k

\* C2: when a fetch or a parse of either document failed, an error was logged
\* and nothing was rendered: inicializarMapa, crearLeyenda and
\* crearGraficoMaximos were not called, and the map, the markers, the legend
\* and the maxima panel are as they were.
C2_FalloSinRender ==
    fallo # "" =>
        /\ errores >= 1
        /\ ~InLog("inicializarMapa") /\ ~InLog("crearLeyenda")
        /\ ~InLog("crearGraficoMaximos")
        /\ map = Undefined /\ provinciasLayer = Undefined
        /\ legendItems = <<>> /\ maximosItems = <<>>

\* C2 witness: the maxima fetch failed after the primary dataset was loaded
\* with both of its parts.
C2_Witness ==
    /\ fallo = "fetch2" /\ pc = "done"
    /\ IsDef(datosProvincias) /\ IsDef(clasificaciones)

\* C3: at most one Chart created and not destroyed exists, and once a detail
\* chart has been created exactly one exists, the one held in this.chart.
C3_UnSoloChartVivo ==
    /\ Cardinality(live) <= 1
    /\ charts = <<>> => live = {} /\ chart = Undefined
    /\ charts # <<>> => IsDef(chart) /\ live = {Val(chart).id}

\* C3 witness: three charts were created, for a province, for a second one
\* opened before the first one's deferred callback fired, and for the first
\* one reopened.
C3_Witness ==
    /\ Len(charts) = 3 /\ charts[1] # charts[2] /\ charts[3] = charts[1]
    /\ Cardinality(live) = 1

Lifecycle ==
    CASE pc = "uninit" -> "uninitialized"
      [] pc \in {"fetch1", "json1", "fetch2", "json2"} -> "loading"
      [] OTHER -> IF errores = 0 THEN "ready" ELSE "failed"

\* C4: the lifecycle only moves uninitialized -> loading -> ready or
\* uninitialized -> loading -> failed; init runs once and each fetch is issued
\* at most once; ready and failed are never left.
C4_CicloDeVida ==
    [][/\ Lifecycle' # Lifecycle =>
            <<Lifecycle, Lifecycle'>> \in {<<"uninitialized", "loading">>,
                                           <<"loading", "ready">>,
                                           <<"loading", "failed">>}
       /\ Lifecycle \in {"ready", "failed"} => Lifecycle' = Lifecycle
       /\ conteo'.init <= 1 /\ conteo'.fetch1 <= 1 /\ conteo'.fetch2 <= 1
       /\ Lifecycle' # "uninitialized" => conteo'.init = 1 /\ conteo'.fetch1 = 1]_vars

\* C4 witness: the dashboard is ready and a detail chart was created after
\* that.
C4_Witness == Lifecycle = "ready" /\ charts # <<>> /\ conteo.fetch2 = 1

Renderers == {"crearGraficoMaximos", "inicializarMapa", "crearLeyenda",
              "crearGraficoEnPopup"}

\* C5: the maxima fetch is issued only after the primary document was parsed,
\* and every renderer is first called only after both documents were parsed.
C5_Secuencial ==
    /\ InLog("fetch2") => InLog("parsed1") /\ Pos("parsed1") < Pos("fetch2")
    /\ InLog("parsed2") => InLog("fetch2") /\ Pos("fetch2") < Pos("parsed2")
    /\ \A r \in Renderers :
          InLog(r) => /\ InLog("parsed1") /\ Pos("parsed1") < Pos(r)
                      /\ InLog("parsed2") /\ Pos("parsed2") < Pos(r)

\* C5 witness: all four renderers have run.
C5_Witness == \A r \in Renderers : InLog(r)

\* The detail chart held in this.chart and the class mapping it was made from.
Config == Val(chart).config
MappingDelChart == MappingDe(charts[Val(chart).id])

\* Every key of the mapping labels exactly one of the positions of seq.
UnaPorClase(entries, seq) ==
    /\ Len(seq) = Len(entries)
    /\ \A j \in 1..Len(entries) :
          Cardinality({i \in 1..Len(seq) : seq[i] = entries[j].k}) = 1

\* C6, as stated: the bars of the detail chart are strictly descending by
\* area_km2, one bar per class of the mapping.
C6_BarrasEstrictamenteDescendentes ==
    IsDef(chart) =>
        /\ UnaPorClase(MappingDelChart, Config.labels)
        /\ \A i \in 1..(Len(Config.data) - 1) : Config.data[i] > Config.data[i + 1]

\* C6, amended: the bars of the detail chart are in descending order by
\* area_km2 with equal areas allowed next to each other (no bar is larger
\* than the one before it), one bar per class of the mapping, each bar's
\* area being the area_km2 of its class.
C6_BarrasDescendentes ==
    IsDef(chart) =>
        /\ UnaPorClase(MappingDelChart, Config.labels)
        /\ Len(Config.data) = Len(Config.labels)
        /\ Len(Config.backgroundColor) = Len(Config.labels)
        /\ \A i \in 1..Len(Config.data) :
              \E j \in 1..Len(MappingDelChart) :
                  /\ MappingDelChart[j].k = Config.labels[i]
                  /\ MappingDelChart[j].v.area_km2 = Config.data[i]
        /\ \A i \in 1..(Len(Config.data) - 1) : Config.data[i] >= Config.data[i + 1]

\* C6 witness: a chart of three bars whose mapping listed the smallest area
\* first and which holds two bars of equal area.
C6_Witness ==
    /\ IsDef(chart)
    /\ Len(Config.data) = 3
    /\ Config.data[1] > Config.data[2] /\ Config.data[2] = Config.data[3]
    /\ MappingDelChart[1].v.area_km2 < MappingDelChart[3].v.area_km2

\* C7, as stated: the maxima panel has one row per class of the document and
\* the rows are strictly descending by porcentaje.
C7_FilasEstrictamenteDescendentes ==
    InLog("crearGraficoMaximos") =>
        /\ UnaPorClase(Val(maximosData), [i \in 1..Len(maximosItems) |-> maximosItems[i].clase])
        /\ \A i \in 1..(Len(maximosItems) - 1) :
              maximosItems[i].porcentaje > maximosItems[i + 1].porcentaje

\* C7, amended: the maxima panel has one row per class of the document, each
\* row showing its class's provincia, porcentaje and color, and the rows are
\* in descending order by porcentaje with equal percentages allowed next to
\* each other.
C7_FilasDescendentes ==
    InLog("crearGraficoMaximos") =>
        /\ UnaPorClase(Val(maximosData), [i \in 1..Len(maximosItems) |-> maximosItems[i].clase])
        /\ \A i \in 1..Len(maximosItems) :
              \E j \in 1..Len(Val(maximosData)) :
                  /\ Val(maximosData)[j].k = maximosItems[i].clase
                  /\ Val(maximosData)[j].v.provincia = maximosItems[i].provincia
                  /\ Val(maximosData)[j].v.porcentaje = maximosItems[i].porcentaje
                  /\ Val(maximosData)[j].v.color = maximosItems[i].color
        /\ \A i \in 1..(Len(maximosItems) - 1) :
              maximosItems[i].porcentaje >= maximosItems[i + 1].porcentaje

\* C7 witness: a panel of three rows whose document listed the smallest
\* percentage first and which holds two rows of equal percentage.
C7_Witness ==
    /\ InLog("crearGraficoMaximos")
    /\ Len(maximosItems) = 3
    /\ maximosItems[1].porcentaje = maximosItems[2].porcentaje
    /\ maximosItems[2].porcentaje > maximosItems[3].porcentaje
    /\ Val(maximosData)[1].v.porcentaje < Val(maximosData)[2].v.porcentaje

\* Dictionary order on display names, letter by letter.
RECURSIVE NombreLeq(_, _)
NombreLeq(a, b) ==
    \/ a = <<>>
    \/ /\ b # <<>>
       /\ \/ a[1] < b[1]
          \/ a[1] = b[1] /\ NombreLeq(Tail(a), Tail(b))

FilaDe(entry) == [color |-> entry.v.color, nombre |-> entry.v.nombre]

\* C8: the legend has exactly one swatch+label row per class of the catalog
\* (every row value appears as often among the rows as among the catalog's
\* classes) and the rows are in alphabetical order of nombre, whatever the
\* class ids and the catalog's key order.
C8_LeyendaAlfabetica ==
    InLog("crearLeyenda") =>
        LET cat == Val(clasificaciones)
        IN  /\ Len(legendItems) = Len(cat)
            /\ \A j \in 1..Len(cat) :
                  Cardinality({i \in 1..Len(legendItems) : legendItems[i] = FilaDe(cat[j])})
                  = Cardinality({i \in 1..Len(cat) : FilaDe(cat[i]) = FilaDe(cat[j])})
            /\ \A i \in 1..(Len(legendItems) - 1) :
                  NombreLeq(legendItems[i].nombre, legendItems[i + 1].nombre)

\* C8 witness: a legend of three rows with three different names, made from a
\* catalog whose key order is the reverse of the alphabetical order.
C8_Witness ==
    /\ InLog("crearLeyenda")
    /\ Len(legendItems) = 3
    /\ legendItems[1].nombre # legendItems[2].nombre
    /\ legendItems[2].nombre # legendItems[3].nombre
    /\ FilaDe(Val(clasificaciones)[1]) = legendItems[3]
    /\ FilaDe(Val(clasificaciones)[3]) = legendItems[1]

\* C9: a feature whose class mapping is empty or absent degrades silently:
\* its marker has the fallback colour, the other markers and the legend are
\* rendered, no error is logged, and no chart is made for it.
C9_DegradaEnSilencio ==
    (pc = "done" /\ fallo = "" /\ IsDef(datosProvincias) /\ IsDef(clasificaciones)) =>
        /\ errores = 0
        /\ InLog("crearLeyenda")
        /\ IsDef(provinciasLayer)
        /\ Len(Val(provinciasLayer)) = Len(Val(datosProvincias))
        /\ \A i \in 1..Len(Val(datosProvincias)) :
              LET c == Val(datosProvincias)[i].clasificaciones
              IN  (~IsDef(c) \/ c = Def(<<>>)) =>
                      /\ Val(provinciasLayer)[i].fillColor = FallbackColor
                      /\ \A n \in 1..Len(charts) : charts[n] # i

\* C10: in the detail chart every bar's label, area, colour and tooltip
\* percentage come from one record of the province's mapping: the record of
\* the class the bar is labelled with.
C10_BarraDeUnMismoRegistro ==
    IsDef(chart) =>
        /\ Len(Config.labels) = Len(MappingDelChart)
        /\ \A i \in 1..Len(Config.labels) :
              \E j \in 1..Len(MappingDelChart) :
                  /\ MappingDelChart[j].k = Config.labels[i]
                  /\ MappingDelChart[j].v.area_km2 = Config.data[i]
                  /\ MappingDelChart[j].v.color = Config.backgroundColor[i]
                  /\ ToFixed1(MappingDelChart[j].v.porcentaje) = AfterLabel(Config, i)

\* C10 witness: a chart whose bars are not in the mapping's order and whose
\* first two bars have different percentages.
C10_Witness ==
    /\ IsDef(chart)
    /\ Len(Config.labels) >= 2
    /\ Config.labels[1] # MappingDelChart[1].k
    /\ AfterLabel(Config, 1) # AfterLabel(Config, 2)

============================================================================
